---- MODULE Spec2Model ----
(***************************************************************************)
(* A model of simple_weather_forecast.py: the lookup of a BMKG weather     *)
(* code, the fetch through the external client, the formatting of the      *)
(* forecast message, and main.                                             *)
(*                                                                         *)
(* Text is kept as text.  TLA+ strings are ASCII, so the non-ASCII         *)
(* characters of the source's literals are written <U+XXXX> (the emoji     *)
(* and their variation selectors, the bullet U+2022, the degree sign       *)
(* U+00B0).  The message is the sequence of the pieces the code appends    *)
(* to it, one element per `message +=` (or the one returned literal).      *)
(***************************************************************************)
EXTENDS Integers, Sequences, FiniteSets, TLC

VARIABLES
    pc,             \* where main (or the unit call) is
    client,         \* the WeatherForecast client: "unopened" | "open" | "closed"
    requests,       \* calls of get_weather_forecast made so far
    closes,         \* times the client's __aexit__ has run
    faults,         \* history: the places where the client has raised in this run
    pending,        \* where the exception propagating inside get_bmkg_weather_data arose, or ""
    fetched,        \* the value `return weather_data` is carrying out of the with block
    escaped,        \* an exception has left get_bmkg_weather_data or format_weather_message
    log,            \* the logger's records, in order
    weather_data,   \* main's weather_data / the argument of format_weather_message
    now,            \* the clock when format_weather_message is called
    day_forecasts,  \* format_weather_message's day_forecasts
    night_forecasts,\* format_weather_message's night_forecasts
    message,        \* the value format_weather_message returned
    stdout,         \* what has been printed, one element per print()
    code,           \* argument of a direct call of get_weather_condition_description_id
    description     \* its result

vars == <<pc, client, requests, closes, faults, pending, fetched, escaped, log,
          weather_data, now, day_forecasts, night_forecasts, message,
          stdout, code, description>>

-----------------------------------------------------------------------------
(* Bounds of the model *)

\* longest weathers sequence tried (the two windows read indices 0..11)
MaxLen == 13
\* numeric codes 0..MaxCode are tried on the lookup, as strings
MaxCode == 110

-----------------------------------------------------------------------------
(* Python values, as far as the program looks at them *)

PyNone == [kind |-> "none", int |-> 0, str |-> ""]
PyInt(n) == [kind |-> "int", int |-> n, str |-> ""]
PyStr(s) == [kind |-> "str", int |-> 0, str |-> s]
\* the attribute does not exist: hasattr is False, getattr takes its default
Absent == [kind |-> "absent", int |-> 0, str |-> ""]
\* the attribute is a property that raises something other than AttributeError,
\* which hasattr and getattr let through
Raising == [kind |-> "raising", int |-> 0, str |-> ""]
\* an object whose __str__ raises
BadStr == [kind |-> "badstr", int |-> 0, str |-> ""]
\* not a Python value: an exception is propagating instead of a value
Raised == [kind |-> "raised", int |-> 0, str |-> ""]

\* str(v), also what an f-string does to v
str(v) == IF v.kind = "int" THEN ToString(v.int)
          ELSE IF v.kind = "none" THEN "None"
          ELSE v.str

\* bool(v)
truthy(v) == CASE v.kind = "int" -> v.int # 0
               [] v.kind = "str" -> v.str # ""
               [] v.kind = "badstr" -> TRUE
               [] OTHER -> FALSE

hasattr(obj, attr) == obj[attr].kind # "absent"

getattr(obj, attr, default) == IF hasattr(obj, attr) THEN obj[attr] ELSE default

-----------------------------------------------------------------------------
(* get_weather_condition_description_id *)

weather_codes ==
    ("0" :> "Cerah <U+2600><U+FE0F>") @@
    ("1" :> "Cerah Berawan <U+1F324><U+FE0F>") @@
    ("2" :> "Cerah Berawan <U+1F324><U+FE0F>") @@
    ("3" :> "Berawan <U+2601><U+FE0F>") @@
    ("4" :> "Berawan Tebal <U+2601><U+FE0F>") @@
    ("5" :> "Udara Kabur <U+1F32B><U+FE0F>") @@
    ("10" :> "Asap <U+1F32B><U+FE0F>") @@
    ("45" :> "Berkabut <U+1F32B><U+FE0F>") @@
    ("60" :> "Hujan Ringan <U+1F326><U+FE0F>") @@
    ("61" :> "Hujan Sedang <U+1F327><U+FE0F>") @@
    ("63" :> "Hujan Lebat <U+1F327><U+FE0F>") @@
    ("80" :> "Hujan Lokal <U+1F326><U+FE0F>") @@
    ("95" :> "Hujan Petir <U+26C8><U+FE0F>") @@
    ("97" :> "Hujan Petir <U+26C8><U+FE0F>")

\* mutant: the code is read as a number before it is looked up, so "061" is 61
mutant_lookup_normalised(c) ==
    IF c \in DOMAIN weather_codes THEN weather_codes[c]
    ELSE IF c = "061" THEN weather_codes["61"]
    ELSE "Kondisi Cuaca Tidak Diketahui (Kode: " \o c \o ")"

\* weather_codes.get(code, f"Kondisi Cuaca Tidak Diketahui (Kode: {code})")
get_weather_condition_description_id(c) ==
    IF c \in DOMAIN weather_codes
    THEN weather_codes[c]
    ELSE "Kondisi Cuaca Tidak Diketahui (Kode: " \o c \o ")"

-----------------------------------------------------------------------------
(* The inputs: forecast entries, responses, clock readings *)

\* the candidate attribute names, in the order lines 161 and 209 try them
temp_attrs == <<"temperature", "temp", "t", "suhu">>

\* one attribute of an entry: missing, None, or a number
AttrChoice(j, value) == CASE j = 0 -> Absent
                          [] j = 1 -> PyNone
                          [] OTHER -> PyInt(value)

\* values the weather attribute takes: missing, None, codes as int and as str,
\* codes of the table and codes outside it
WeatherVals == <<PyStr("0"), PyInt(61), PyStr("61"), Absent, PyInt(3), PyStr("99"),
                 PyNone, PyStr("95"), PyInt(7), PyStr("1"), PyStr("abc"), PyInt(45),
                 PyStr("2"), PyStr("4"), PyInt(5), PyStr("10"), PyStr("60"),
                 PyInt(63), PyStr("80"), PyStr("97"), PyStr("061"), PyInt(0)>>

\* the k-th entry of a family of entries that runs through every combination of
\* missing / None / number on the four temperature attributes
EntryOf(k) ==
    [ weather     |-> WeatherVals[(k % Len(WeatherVals)) + 1],
      temperature |-> AttrChoice(k % 3, 31),
      temp        |-> AttrChoice((k \div 3) % 3, 25),
      t           |-> AttrChoice((k \div 9) % 3, 20),
      suhu        |-> AttrChoice((k \div 27) % 3, 0) ]

Seeds == {0, 1, 2}

\* a weathers list of n entries; consecutive entries differ
WeathersOf(n, seed) == [i \in 1..n |-> EntryOf(7 * (i - 1) + 31 * seed)]

\* indices (from 0) of the entry that misbehaves in a poisoned list: the first
\* two of the daytime window and of the night window
FaultIdx == {0, 1, 8, 9}

\* the list with entry idx made to raise when its temperature attribute is
\* looked up ("entry"), or to hold a weather value whose str() raises ("render")
Poisoned(list, how, idx) ==
    [i \in 1..Len(list) |->
        IF i # idx + 1 THEN list[i]
        ELSE IF how = "entry" THEN [list[i] EXCEPT !.temperature = Raising]
        ELSE [list[i] EXCEPT !.weather = BadStr]]

\* weather_data.weathers: missing, None, a truthy object without len(), or a
\* list (of each length in lens), sound or poisoned
WeathersAttr(lens) ==
    {[kind |-> "absent", list |-> <<>>], [kind |-> "none", list |-> <<>>],
     [kind |-> "unsized", list |-> <<>>]}
    \cup {[kind |-> "list", list |-> WeathersOf(n, s)] : n \in lens, s \in Seeds}
    \cup {[kind |-> "list", list |-> Poisoned(WeathersOf(n, 0), how, idx)] :
            n \in lens, how \in {"entry", "render"}, idx \in FaultIdx}

\* weather_data.location: missing, None, a property that raises, or an object
\* whose name is missing, None, empty or a name
Locations ==
    {[kind |-> "absent", name |-> Absent], [kind |-> "none", name |-> Absent],
     [kind |-> "raising", name |-> Absent]}
    \cup {[kind |-> "obj", name |-> nm] :
            nm \in {Absent, PyNone, PyStr(""), PyStr("Jekan Raya, Palangka Raya")}}

\* weather_data is None
None == [kind |-> "none", location |-> [kind |-> "absent", name |-> Absent],
         weathers |-> [kind |-> "absent", list |-> <<>>]]

\* the forecast objects the client can return
Responses(lens) ==
    {[kind |-> "obj", location |-> l, weathers |-> w] :
        l \in Locations, w \in WeathersAttr(lens)}

\* what strftime("%A"), ("%d"), ("%B"), ("%Y") give on the days tried; ord is the
\* day's ordinal, so that the next day is ord + 1
Calendar ==
    (0 :> [A |-> "Monday", d |-> "01", B |-> "January", Y |-> "2024"]) @@
    (59 :> [A |-> "Thursday", d |-> "29", B |-> "February", Y |-> "2024"])

\* the readings of datetime.datetime.now() tried: every hour of two days, on
\* the hour on one and 45 minutes past on the other
Clock ==
    {[ord |-> 0, hour |-> h, minute |-> 0] : h \in 0..23}
    \cup {[ord |-> 59, hour |-> h, minute |-> 45] : h \in 0..23}

\* before the first call of datetime.datetime.now()
NoClock == [ord |-> 0, hour |-> 0, minute |-> 0]

-----------------------------------------------------------------------------
(* datetime *)

\* dt + datetime.timedelta(hours=k)
plus_hours(dt, k) ==
    [ord |-> dt.ord + ((dt.hour + k) \div 24), hour |-> (dt.hour + k) % 24,
     minute |-> dt.minute]

\* dt.replace(minute=0, second=0, microsecond=0)
replace_minute_0(dt) == [dt EXCEPT !.minute = 0]

\* datetime.datetime.combine(date, datetime.time(hour, 0))
combine(date, hour) == [ord |-> date, hour |-> hour, minute |-> 0]

\* dt.strftime("%H:00")
strftime_H00(dt) ==
    (IF dt.hour < 10 THEN "0" \o ToString(dt.hour) ELSE ToString(dt.hour)) \o ":00"

-----------------------------------------------------------------------------
(* format_weather_message *)

day_names ==
    ("Monday" :> "Senin") @@ ("Tuesday" :> "Selasa") @@ ("Wednesday" :> "Rabu") @@
    ("Thursday" :> "Kamis") @@ ("Friday" :> "Jumat") @@ ("Saturday" :> "Sabtu") @@
    ("Sunday" :> "Minggu")

month_names ==
    ("January" :> "Januari") @@ ("February" :> "Februari") @@ ("March" :> "Maret") @@
    ("April" :> "April") @@ ("May" :> "Mei") @@ ("June" :> "Juni") @@
    ("July" :> "Juli") @@ ("August" :> "Agustus") @@ ("September" :> "September") @@
    ("October" :> "Oktober") @@ ("November" :> "November") @@
    ("December" :> "Desember")

\* d.get(key, default)
dict_get(d, key, default) == IF key \in DOMAIN d THEN d[key] ELSE default

\* line 107
current_date_str(n) ==
    LET eng_day == Calendar[n.ord].A
        eng_month == Calendar[n.ord].B
    IN  dict_get(day_names, eng_day, eng_day) \o ", " \o Calendar[n.ord].d \o " "
        \o dict_get(month_names, eng_month, eng_month) \o " " \o Calendar[n.ord].Y

\* the pieces of the message that do not depend on the entries
WarningText == "<U+26A0><U+FE0F> Tidak dapat mengambil data cuaca dari BMKG."
HeaderLine == "*Info Cuaca BMKG* <U+1F324><U+FE0F>\n\n"
DateLine(n) == "*Tanggal:* " \o current_date_str(n) \o "\n"
LocationLine(area_name) == "*Lokasi:* " \o area_name \o "\n\n"
DayHeader == "*Prakiraan Cuaca Siang Hari:*\n"
NightHeader == "*Prakiraan Cuaca Malam Hari:*\n"
SectionBreak == "\n"
NoForecastLine == "*Prakiraan Cuaca:* Tidak ada prakiraan untuk hari ini\n"
NoDataLine == "*Prakiraan Cuaca:* Data tidak tersedia\n"
ErrorLine == "*Prakiraan Cuaca:* Error saat memproses data\n"
SourceLine == "\nSumber data: BMKG Indonesia"

default_area_name == "Bukit Tunggal, Palangkaraya"

\* lines 120-123: the display name, or Raised
area_name_of(wd) ==
    IF wd.location.kind = "raising" THEN Raised
    ELSE IF wd.location.kind = "obj" /\ hasattr(wd.location, "name")
            /\ truthy(wd.location.name)
         THEN wd.location.name
         ELSE PyStr(default_area_name)

\* mutant: the loop stops at the first attribute that exists, None or not
RECURSIVE mutant_resolve_temperature(_, _)
mutant_resolve_temperature(weather_entry, a) ==
    IF a > Len(temp_attrs) THEN PyNone
    ELSE IF weather_entry[temp_attrs[a]].kind = "raising" THEN Raised
    ELSE IF hasattr(weather_entry, temp_attrs[a])
         THEN weather_entry[temp_attrs[a]]
         ELSE mutant_resolve_temperature(weather_entry, a + 1)

\* lines 160-165 and 208-213: the loop over temp_attrs from its a-th name on,
\* temperature being None so far; the value of temperature after it, or Raised
RECURSIVE resolve_temperature(_, _)
resolve_temperature(weather_entry, a) ==
    IF a > Len(temp_attrs) THEN PyNone
    ELSE IF weather_entry[temp_attrs[a]].kind = "raising" THEN Raised
    ELSE IF hasattr(weather_entry, temp_attrs[a])
            /\ weather_entry[temp_attrs[a]].kind # "none"
         THEN weather_entry[temp_attrs[a]]
         ELSE resolve_temperature(weather_entry, a + 1)

\* lines 167-171 and 215-219
forecast_of(forecast_time, weather_entry, temperature) ==
    [datetime |-> forecast_time,
     weather |-> getattr(weather_entry, "weather", PyNone),
     temperature |-> temperature]

\* line 142
day_forecast_count(weathers) == IF 8 < Len(weathers) THEN 8 ELSE Len(weathers)
\* line 143
night_forecast_count(weathers) == IF 4 < Len(weathers) THEN 4 ELSE Len(weathers)

\* line 156
mutant_is_today_daytime(forecast_time, n) == forecast_time.hour <= 18
is_today_daytime(forecast_time, n) ==
    forecast_time.ord = n.ord /\ forecast_time.hour <= 18

\* lines 146-172 from index i on, acc being day_forecasts so far
RECURSIVE day_loop(_, _, _, _)
day_loop(weathers, n, i, acc) ==
    IF i >= day_forecast_count(weathers) THEN [exc |-> FALSE, list |-> acc]
    ELSE LET forecast_time == replace_minute_0(plus_hours(n, i + 1))
             temperature == resolve_temperature(weathers[i + 1], 1)
         IN  IF i < Len(weathers) /\ is_today_daytime(forecast_time, n)
             THEN IF temperature = Raised
                  THEN [exc |-> TRUE, list |-> acc]
                  ELSE day_loop(weathers, n, i + 1,
                           Append(acc, forecast_of(forecast_time, weathers[i + 1],
                                                   temperature)))
             ELSE day_loop(weathers, n, i + 1, acc)

\* line 175
mutant_night_offset(weathers) == 0
night_offset(weathers) == day_forecast_count(weathers)

night_hours == <<19, 21, 23, 1>>

\* lines 182-205: the time of the i-th night forecast
night_time(n, i) ==
    IF n.hour < 19
    THEN LET hour == IF i < Len(night_hours) THEN night_hours[i + 1] ELSE 1
         IN  IF hour < 12 /\ hour < 6
             THEN combine(n.ord + 1, hour)
             ELSE combine(n.ord, hour)
    ELSE replace_minute_0(plus_hours(n, i * 2 + 1))

\* lines 176-220 from i on, acc being night_forecasts so far
RECURSIVE night_loop(_, _, _, _)
night_loop(weathers, n, i, acc) ==
    IF i >= night_forecast_count(weathers) THEN [exc |-> FALSE, list |-> acc]
    ELSE LET idx == i + night_offset(weathers)
         IN  IF idx < Len(weathers)
             THEN LET temperature == resolve_temperature(weathers[idx + 1], 1)
                  IN  IF temperature = Raised
                      THEN [exc |-> TRUE, list |-> acc]
                      ELSE night_loop(weathers, n, i + 1,
                               Append(acc, forecast_of(night_time(n, i),
                                                       weathers[idx + 1], temperature)))
             ELSE night_loop(weathers, n, i + 1, acc)

\* lines 231-245 and 260-274, for a forecast whose values print
forecast_line(forecast) ==
    LET time_str == strftime_H00(forecast.datetime)
        weather_condition ==
            IF forecast.weather.kind # "none"
            THEN get_weather_condition_description_id(str(forecast.weather))
            ELSE "Data tidak tersedia"
        temp_str == IF forecast.temperature.kind # "none"
                    THEN " " \o str(forecast.temperature) \o "<U+00B0>C"
                    ELSE ""
    IN  "<U+2022> " \o time_str \o " WIB: " \o weather_condition \o temp_str \o "\n"

\* str(forecast['weather']) raises (lines 236, 265)
line_raises(forecast) == forecast.weather.kind = "badstr"

\* lines 229-245 and 258-274 from the k-th forecast on, appending to msg
RECURSIVE render_loop(_, _, _)
render_loop(forecasts, k, msg) ==
    IF k > Len(forecasts) THEN [exc |-> FALSE, message |-> msg]
    ELSE IF line_raises(forecasts[k]) THEN [exc |-> TRUE, message |-> msg]
    ELSE render_loop(forecasts, k + 1, Append(msg, forecast_line(forecasts[k])))

\* the member of a one-member set; {e(x) : x \in {v}} makes TLC work v out once
the(S) == CHOOSE x \in S : TRUE

\* lines 128-220: day_forecasts and night_forecasts of a weathers list
gather(weathers, n) ==
    the({ IF d.exc THEN [exc |-> TRUE, day |-> d.list, night |-> <<>>]
          ELSE the({ [exc |-> nt.exc, day |-> d.list, night |-> nt.list] :
                       nt \in {night_loop(weathers, n, 0, <<>>)} }) :
            d \in {day_loop(weathers, n, 0, <<>>)} })

\* lines 248-274: the night section appended to msg
render_night(day, night, msg) ==
    IF night # <<>>
    THEN render_loop(night, 1,
             Append(IF day # <<>> THEN Append(msg, SectionBreak) ELSE msg,
                    NightHeader))
    ELSE [exc |-> FALSE, message |-> msg]

\* lines 224-277: the sections appended to msg
render_sections(day, night, msg) ==
    the({ IF r1.exc THEN r1
          ELSE the({ IF r2.exc THEN r2
                     ELSE IF ~(day # <<>> \/ night # <<>>)
                          THEN [exc |-> FALSE,
                                message |-> Append(r2.message, NoForecastLine)]
                          ELSE r2 :
                       r2 \in {render_night(day, night, r1.message)} }) :
            r1 \in {IF day # <<>>
                    THEN render_loop(day, 1, Append(msg, DayHeader))
                    ELSE [exc |-> FALSE, message |-> msg]} })

\* mutant: the attribute is only tested for being there
mutant_has_weathers(wd) == wd.weathers.kind \in {"unsized", "list"}

\* line 128: hasattr(weather_data, 'weathers') and weather_data.weathers
has_weathers(wd) ==
    \/ wd.weathers.kind = "unsized"
    \/ wd.weathers.kind = "list" /\ wd.weathers.list # <<>>

\* lines 125-279, the body of the try after the location lookup, m1 being the
\* message with the location line
try_forecasts(wd, n, m1) ==
    IF ~has_weathers(wd)
    THEN [exc |-> FALSE, message |-> Append(m1, NoDataLine),
          day |-> <<>>, night |-> <<>>]
    ELSE IF wd.weathers.kind = "unsized"
    THEN [exc |-> TRUE, message |-> m1, day |-> <<>>, night |-> <<>>]
    ELSE the({ IF g.exc
               THEN [exc |-> TRUE, message |-> m1, day |-> g.day, night |-> g.night]
               ELSE the({ [exc |-> r.exc, message |-> r.message,
                           day |-> g.day, night |-> g.night] :
                            r \in {render_sections(g.day, g.night, m1)} }) :
                 g \in {gather(wd.weathers.list, n)} })

\* lines 119-279, the body of the try, msg being the message so far: the
\* message when the body ends, normally or by an exception (exc)
try_body(wd, n, msg) ==
    LET area_name == area_name_of(wd)
    IN  IF area_name = Raised
        THEN [exc |-> TRUE, message |-> msg, day |-> <<>>, night |-> <<>>]
        ELSE try_forecasts(wd, n, Append(msg, LocationLine(str(area_name))))

FormatError == "ERROR Error formatting weather data"

\* mutant: the handler starts the message again
mutant_except_formatting(body) ==
    IF body.exc
    THEN [message |-> <<ErrorLine>>, log |-> <<FormatError>>, escaped |-> FALSE]
    ELSE [message |-> body.message, log |-> <<>>, escaped |-> FALSE]

\* lines 280-282: except Exception around the body
except_formatting(body) ==
    IF body.exc
    THEN [message |-> Append(body.message, ErrorLine), log |-> <<FormatError>>,
          escaped |-> FALSE]
    ELSE [message |-> body.message, log |-> <<>>, escaped |-> FALSE]

\* mutant: the early return for a missing response is gone
mutant_format_weather_message(wd, n) ==
    the({ [message |-> Append(except_formatting(body).message, SourceLine),
           log |-> except_formatting(body).log,
           escaped |-> except_formatting(body).escaped,
           day |-> body.day, night |-> body.night] :
            body \in {try_body(wd, n, <<HeaderLine, DateLine(n)>>)} })

\* lines 69-287; n is what datetime.datetime.now() returns
format_weather_message(wd, n) ==
    IF wd.kind = "none"
    THEN [message |-> <<WarningText>>, log |-> <<>>, escaped |-> FALSE,
          day |-> <<>>, night |-> <<>>]
    ELSE the({ [message |-> Append(except_formatting(body).message, SourceLine),
                log |-> except_formatting(body).log,
                escaped |-> except_formatting(body).escaped,
                day |-> body.day, night |-> body.night] :
                 body \in {try_body(wd, n, <<HeaderLine, DateLine(n)>>)} })

-----------------------------------------------------------------------------
(* The unit calls: each function applied to every input of the bounded sets *)

\* the arguments tried on format_weather_message
UnitResponses == Responses(0..MaxLen) \cup {None}

\* the code strings tried on the lookup
Codes == {ToString(c) : c \in 0..MaxCode} \cup {"", "abc", "061", "1.0", " 1", "-1"}

InitCommon ==
    /\ client = "unopened"
    /\ requests = 0
    /\ closes = 0
    /\ faults = {}
    /\ pending = ""
    /\ fetched = None
    /\ escaped = FALSE
    /\ log = <<>>
    /\ weather_data = None
    /\ now = NoClock
    /\ day_forecasts = <<>>
    /\ night_forecasts = <<>>
    /\ message = <<>>
    /\ stdout = <<>>
    /\ code = ""
    /\ description = ""

UnitInit == pc = "idle" /\ InitCommon

\* format_weather_message(wd) called at clock reading n
CallFormat ==
    /\ pc = "idle"
    /\ \E wd \in UnitResponses, n \in Clock :
         /\ weather_data' = wd
         /\ now' = n
         /\ \E res \in {format_weather_message(wd, n)} :
             /\ message' = res.message
             /\ day_forecasts' = res.day
             /\ night_forecasts' = res.night
             /\ log' = log \o res.log
             /\ escaped' = res.escaped
    /\ pc' = "formatted"
    /\ UNCHANGED <<client, requests, closes, faults, pending, fetched, stdout, code,
                   description>>

\* get_weather_condition_description_id(c)
CallLookup ==
    /\ pc = "idle"
    /\ \E c \in Codes :
         /\ code' = c
         /\ description' = get_weather_condition_description_id(c)
    /\ pc' = "looked_up"
    /\ UNCHANGED <<client, requests, closes, faults, pending, fetched, escaped, log,
                   weather_data, now, day_forecasts, night_forecasts, message,
                   stdout>>

UnitNext == CallFormat \/ CallLookup

UnitSpec == UnitInit /\ [][UnitNext]_vars

-----------------------------------------------------------------------------
(* main and get_bmkg_weather_data *)

\* mutant: the test is for any value at all
mutant_has_data(wd) == TRUE

\* line 296: if weather_data
has_data(wd) == wd.kind = "obj"

\* weathers lengths of the responses the client returns in the runs of main
MainLens == {0, 2, 9, MaxLen}

\* what get_weather_forecast returns in the runs of main
MainResponses == Responses(MainLens) \cup {None}

\* the log records, by level and fixed text (lines 63, 66)
FetchInfo == "INFO Successfully fetched weather data"
FetchError == "ERROR Error fetching weather data"

Banner == "Fetching weather data from BMKG..."
Rule == "=================================================="
MainWarning == "<U+26A0><U+FE0F> Tidak dapat mengambil data cuaca dari BMKG. Silakan periksa koneksi internet Anda atau coba lagi nanti."

Init == pc = "start" /\ InitCommon

\* line 293
PrintBanner ==
    /\ pc = "start"
    /\ stdout' = Append(stdout, <<Banner>>)
    /\ pc' = "enter"
    /\ UNCHANGED <<client, requests, closes, faults, pending, fetched, escaped, log,
                   weather_data, now, day_forecasts, night_forecasts, message,
                   code, description>>

\* line 61, WeatherForecast() and its __aenter__: the client opens, or raises
EnterClient ==
    /\ pc = "enter"
    /\ \/ client' = "open" /\ pending' = "" /\ pc' = "request" /\ faults' = faults
       \/ /\ client' = "unopened" /\ pending' = "open" /\ pc' = "except"
          /\ faults' = faults \cup {"open"}
    /\ UNCHANGED <<requests, closes, fetched, escaped, log, weather_data, now,
                   day_forecasts, night_forecasts, message, stdout, code,
                   description>>

\* lines 62-64: the one await of get_weather_forecast; it returns a forecast
\* (or None), or raises; either way the with block is left next
Request ==
    /\ pc = "request"
    /\ requests' = requests + 1
    /\ \/ \E resp \in MainResponses :
            /\ fetched' = resp
            /\ log' = Append(log, FetchInfo)
            /\ pending' = ""
            /\ faults' = faults
       \/ /\ pending' = "request"
          /\ faults' = faults \cup {"request"}
          /\ UNCHANGED <<fetched, log>>
    /\ pc' = "exit"
    /\ UNCHANGED <<client, closes, escaped, weather_data, now, day_forecasts,
                   night_forecasts, message, stdout, code, description>>

\* mutant: the client is closed by hand after the request, so an exception of
\* the request skips the close
mutant_ExitClient ==
    /\ pc = "exit"
    /\ IF pending = ""
       THEN /\ closes' = closes + 1
            /\ \/ /\ client' = "closed" /\ pending' = "" /\ faults' = faults
                  /\ weather_data' = fetched /\ pc' = "branch"
               \/ /\ client' \in {"closed", "open"} /\ pending' = "close"
                  /\ faults' = faults \cup {"close"}
                  /\ weather_data' = weather_data /\ pc' = "except"
       ELSE /\ pc' = "except"
            /\ UNCHANGED <<closes, client, pending, faults, weather_data>>
    /\ UNCHANGED <<requests, fetched, escaped, log, now, day_forecasts,
                   night_forecasts, message, stdout, code, description>>

\* the end of the with block of line 61: __aexit__ runs once; it closes the
\* client and lets a pending exception through, or raises itself, and then
\* what became of the connection is the client's affair
ExitClient ==
    /\ pc = "exit"
    /\ closes' = closes + 1
    /\ \/ /\ client' = "closed"
          /\ pending' = pending
          /\ faults' = faults
          /\ IF pending = ""
             THEN weather_data' = fetched /\ pc' = "branch"
             ELSE weather_data' = weather_data /\ pc' = "except"
       \/ /\ client' \in {"closed", "open"}
          /\ pending' = "close"
          /\ faults' = faults \cup {"close"}
          /\ weather_data' = weather_data
          /\ pc' = "except"
    /\ UNCHANGED <<requests, fetched, escaped, log, now, day_forecasts,
                   night_forecasts, message, stdout, code, description>>

\* mutant: the try is inside the with block, around the request alone
mutant_try_covers(site) == site = "request"

\* lines 60-65: the places of get_bmkg_weather_data whose exceptions the try
\* statement catches
try_covers(site) == site \in {"open", "request", "close"}

\* lines 65-67, or the exception leaving get_bmkg_weather_data and main
ExceptFetch ==
    /\ pc = "except"
    /\ IF try_covers(pending)
       THEN /\ log' = Append(log, FetchError)
            /\ weather_data' = None
            /\ pc' = "branch"
            /\ escaped' = escaped
       ELSE /\ escaped' = TRUE
            /\ pc' = "crashed"
            /\ UNCHANGED <<log, weather_data>>
    /\ pending' = ""
    /\ UNCHANGED <<client, requests, closes, faults, fetched, now, day_forecasts,
                   night_forecasts, message, stdout, code, description>>

\* lines 296-298: format_weather_message(weather_data), the clock reading n
MainFormat ==
    /\ pc = "branch"
    /\ has_data(weather_data)
    /\ \E n \in Clock :
         /\ now' = n
         /\ \E res \in {format_weather_message(weather_data, n)} :
             /\ message' = res.message
             /\ day_forecasts' = res.day
             /\ night_forecasts' = res.night
             /\ log' = log \o res.log
             /\ escaped' = res.escaped
             /\ pc' = IF res.escaped THEN "crashed" ELSE "print"
    /\ UNCHANGED <<client, requests, closes, faults, pending, fetched, weather_data,
                   stdout, code, description>>

\* lines 299-303
PrintMessage ==
    /\ pc = "print"
    /\ stdout' = stdout \o <<<<"\n" \o Rule>>, <<"WEATHER FORECAST">>, <<Rule>>,
                             message, <<Rule>>>>
    /\ pc' = "done"
    /\ UNCHANGED <<client, requests, closes, faults, pending, fetched, escaped, log,
                   weather_data, now, day_forecasts, night_forecasts, message,
                   code, description>>

\* line 305
PrintWarning ==
    /\ pc = "branch"
    /\ ~has_data(weather_data)
    /\ stdout' = Append(stdout, <<MainWarning>>)
    /\ pc' = "done"
    /\ UNCHANGED <<client, requests, closes, faults, pending, fetched, escaped, log,
                   weather_data, now, day_forecasts, night_forecasts, message,
                   code, description>>

Next ==
    \/ PrintBanner
    \/ EnterClient
    \/ Request
    \/ ExitClient
    \/ ExceptFetch
    \/ MainFormat
    \/ PrintMessage
    \/ PrintWarning

Spec == Init /\ [][Next]_vars

\* asyncio.run(main()) runs main to its end: no step of it waits on anything
\* but the client's answer, which the model takes to come
FairSpec == Spec /\ WF_vars(Next)

-----------------------------------------------------------------------------
(* The properties *)

\* format_weather_message has returned from a call with a response
Formatted == pc \in {"formatted", "print", "done"} /\ weather_data.kind = "obj"

\* the except clause of format_weather_message has run
FormatFailed == \E k \in 1..Len(log) : log[k] = FormatError

\* the location line of the response, stated from the response
ExpectedLocationLine ==
    LET loc == weather_data.location
    IN  IF loc.kind = "obj" /\ loc.name.kind = "str" /\ loc.name.str # ""
        THEN "*Lokasi:* " \o loc.name.str \o "\n\n"
        ELSE "*Lokasi:* Bukit Tunggal, Palangkaraya\n\n"

\* the bullet lines of the forecasts gathered in the state
BulletLines ==
    {forecast_line(day_forecasts[k]) : k \in 1..Len(day_forecasts)}
    \cup {forecast_line(night_forecasts[k]) : k \in 1..Len(night_forecasts)}

\* C1 as claimed: whenever formatting a present response fails, the message is
\* the header, date and location lines, the error line and the attribution.
C1_AsClaimed ==
    (Formatted /\ FormatFailed) =>
        /\ ~escaped
        /\ message = <<HeaderLine, DateLine(now), ExpectedLocationLine, ErrorLine,
                       SourceLine>>

\* C1 amended: format_weather_message never raises for a present response; when
\* an exception occurs in the try block the message is what had been appended so
\* far, followed by the error line and the attribution.  What had been appended
\* is always the header and the date line, then the location line unless the
\* exception arose in the location lookup, then any section header and bullet
\* lines already rendered.
C1_PartialMessageOnError ==
    Formatted =>
        /\ ~escaped
        /\ FormatFailed =>
            LET n == Len(message)
                first == IF weather_data.location.kind = "raising" THEN 3 ELSE 4
            IN  /\ n >= first + 1
                /\ message[1] = HeaderLine
                /\ message[2] = DateLine(now)
                /\ first = 4 => message[3] = ExpectedLocationLine
                /\ message[n - 1] = ErrorLine
                /\ message[n] = SourceLine
                /\ \A k \in first..(n - 2) :
                      message[k] \in {DayHeader, SectionBreak, NightHeader}
                                     \cup BulletLines

\* C1's case: an exception while the second daytime line is rendered, after the
\* section header and one bullet line were appended
C1_Witness ==
    /\ Formatted /\ FormatFailed
    /\ Len(message) = 7
    /\ message[4] = DayHeader
    /\ message[5] \in BulletLines
    /\ message[6] = ErrorLine

\* C5 as claimed: for an empty weathers list the message holds the line used
\* when no entry is selected, and no bullet line.
C5_AsClaimed ==
    (Formatted /\ ~FormatFailed /\ weather_data.weathers.kind = "list"
       /\ weather_data.weathers.list = <<>>) =>
        /\ \E k \in 1..Len(message) : message[k] = NoForecastLine
        /\ \A k \in 1..Len(message) : message[k] \notin BulletLines

\* C5 amended: for a response whose weathers is empty (and no exception in the
\* location lookup) the message is the header, the date line, the location
\* line, the line "*Prakiraan Cuaca:* Data tidak tersedia" and the attribution:
\* the placeholder for missing data, not the one for an empty selection, and no
\* bullet line, at any time of day.
C5_EmptyWeathersNoData ==
    (Formatted /\ ~FormatFailed /\ weather_data.weathers.kind = "list"
       /\ weather_data.weathers.list = <<>>) =>
        message = <<HeaderLine, DateLine(now), ExpectedLocationLine,
                    "*Prakiraan Cuaca:* Data tidak tersedia\n", SourceLine>>

C5_Witness ==
    /\ Formatted /\ ~FormatFailed
    /\ weather_data.weathers.kind = "list" /\ weather_data.weathers.list = <<>>
    /\ now.hour = 10
    /\ message[4] = NoDataLine

\* C6: for a missing response format_weather_message returns exactly the fixed
\* warning string, whatever the time, and nothing else.
C6_NoneGivesWarning ==
    (pc = "formatted" /\ weather_data = None) =>
        /\ message = <<"<U+26A0><U+FE0F> Tidak dapat mengambil data cuaca dari BMKG.">>
        /\ ~escaped

C6_Witness ==
    pc = "formatted" /\ weather_data = None /\ now.hour = 23 /\ Len(message) = 1

\* C7: the lookup is total: each code of the table gives its description, any
\* other string gives the unknown-condition message carrying the string as is.
C7_LookupTotal ==
    pc = "looked_up" =>
        /\ code = "0" => description = "Cerah <U+2600><U+FE0F>"
        /\ code \in {"1", "2"} => description = "Cerah Berawan <U+1F324><U+FE0F>"
        /\ code = "3" => description = "Berawan <U+2601><U+FE0F>"
        /\ code = "4" => description = "Berawan Tebal <U+2601><U+FE0F>"
        /\ code = "5" => description = "Udara Kabur <U+1F32B><U+FE0F>"
        /\ code = "10" => description = "Asap <U+1F32B><U+FE0F>"
        /\ code = "45" => description = "Berkabut <U+1F32B><U+FE0F>"
        /\ code = "60" => description = "Hujan Ringan <U+1F326><U+FE0F>"
        /\ code = "61" => description = "Hujan Sedang <U+1F327><U+FE0F>"
        /\ code = "63" => description = "Hujan Lebat <U+1F327><U+FE0F>"
        /\ code = "80" => description = "Hujan Lokal <U+1F326><U+FE0F>"
        /\ code \in {"95", "97"} => description = "Hujan Petir <U+26C8><U+FE0F>"
        /\ code \notin {"0", "1", "2", "3", "4", "5", "10", "45", "60", "61", "63",
                        "80", "95", "97"}
             => description = "Kondisi Cuaca Tidak Diketahui (Kode: " \o code \o ")"

\* a string that reads as a code of the table but is not one of its keys
C7_Witness ==
    /\ pc = "looked_up"
    /\ code = "061"
    /\ description = "Kondisi Cuaca Tidak Diketahui (Kode: 061)"

\* the first of temperature, temp, t, suhu that the entry has with a value
\* other than None, stated without the loop; None when there is none
ExpectedTemperature(entry) ==
    LET holds == {a \in 1..4 : entry[<<"temperature", "temp", "t", "suhu">>[a]].kind
                                 \notin {"absent", "none", "raising"}}
        first == CHOOSE a \in holds : \A b \in holds : a <= b
    IN  IF holds = {} THEN PyNone
        ELSE entry[<<"temperature", "temp", "t", "suhu">>[first]]

\* the list the response carries (empty when it carries none)
TheWeathers == IF weather_data.weathers.kind = "list"
               THEN weather_data.weathers.list ELSE <<>>

\* index (from 0) of the first entry of the night window
NightStart == IF Len(TheWeathers) < 8 THEN Len(TheWeathers) ELSE 8

\* C8: the temperature of every selected entry, of the daytime and of the night
\* window, is the value of the first of temperature, temp, t, suhu that is
\* present and not None (a None is skipped), and None only when none of the four
\* holds a value.  The k-th daytime forecast is made from weathers[k-1], the
\* k-th night forecast from weathers[NightStart+k-1].
C8_TemperatureResolution ==
    Formatted =>
        /\ \A k \in 1..Len(day_forecasts) :
              day_forecasts[k].temperature = ExpectedTemperature(TheWeathers[k])
        /\ \A k \in 1..Len(night_forecasts) :
              night_forecasts[k].temperature
                 = ExpectedTemperature(TheWeathers[NightStart + k])

\* the example of the claim: temperature is None and temp is 25
C8_Witness ==
    /\ Formatted /\ ~FormatFailed
    /\ \E k \in 1..Len(day_forecasts) :
          /\ TheWeathers[k].temperature = PyNone
          /\ TheWeathers[k].temp = PyInt(25)
          /\ day_forecasts[k].temperature = PyInt(25)

\* the k-th smallest member of a set of numbers
KthOf(S, k) == CHOOSE x \in S : Cardinality({y \in S : y < x}) = k - 1

\* the indices (from 0) the daytime section is to show: among the first
\* min(8, n), those whose time now + (i+1) h is still today and not after 18:00
DaySelected ==
    {i \in 0..(NightStart - 1) :
        /\ (now.hour + i + 1) \div 24 = 0
        /\ (now.hour + i + 1) % 24 <= 18}

\* the forecast the claim describes for index i at the time ord, hour
ExpectedForecast(i, ord, hour) ==
    [datetime |-> [ord |-> ord, hour |-> hour, minute |-> 0],
     weather |-> IF TheWeathers[i + 1].weather.kind = "absent" THEN PyNone
                 ELSE TheWeathers[i + 1].weather,
     temperature |-> ExpectedTemperature(TheWeathers[i + 1])]

NightCount ==
    LET rest == Len(TheWeathers) - NightStart
    IN  IF rest < 4 THEN rest ELSE 4

\* the time the claim gives the i-th night line (i from 0)
ExpectedNightTime(i) ==
    IF now.hour < 19
    THEN [ord |-> IF i = 3 THEN now.ord + 1 ELSE now.ord,
          hour |-> <<19, 21, 23, 1>>[i + 1], minute |-> 0]
    ELSE [ord |-> now.ord + ((now.hour + 2 * i + 1) \div 24),
          hour |-> (now.hour + 2 * i + 1) % 24, minute |-> 0]

FetchOver == pc \in {"branch", "print", "done", "crashed"}

\* C3: whatever the client raises, while it is opened, during the request or
\* while it is closed, get_bmkg_weather_data logs an error and returns None; no
\* exception reaches main.  Without an exception it returns what the client
\* returned and logs no error.
C3_FetchErrorsBecomeNone ==
    /\ ~escaped
    /\ pc # "crashed"
    /\ (FetchOver /\ faults # {}) =>
          /\ weather_data = None
          /\ log # <<>> /\ log[Len(log)] = FetchError
          /\ Cardinality({k \in 1..Len(log) : log[k] = FetchError}) = 1
    /\ (FetchOver /\ faults = {}) =>
          /\ weather_data = fetched
          /\ \A k \in 1..Len(log) : log[k] # FetchError

\* the request succeeded and closing the client raised: the forecast is dropped
C3_Witness ==
    /\ pc = "branch"
    /\ faults = {"close"}
    /\ fetched.kind = "obj"
    /\ weather_data = None
    /\ log = <<FetchInfo, FetchError>>

\* C4 as claimed: every run makes exactly one request, and an opened client is
\* closed when the function returns.
C4_AsClaimed ==
    FetchOver =>
        /\ requests = 1
        /\ client # "unopened" => client = "closed"

\* C4 amended: get_bmkg_weather_data makes at most one request and never
\* retries: exactly one when the client was opened, none when opening it failed;
\* and on every exit path the exit of the with block has run exactly once for a
\* client that was opened (and not at all for one that was not), before the
\* function returns, leaving the client closed unless that exit itself raised.
C4_OneRequestScopedClient ==
    /\ requests <= 1
    /\ closes <= 1
    /\ FetchOver =>
          IF "open" \in faults
          THEN requests = 0 /\ closes = 0 /\ client = "unopened"
          ELSE /\ requests = 1
               /\ closes = 1
               /\ "close" \notin faults => client = "closed"

\* the request failed, and the client was closed on the way out
C4_Witness ==
    /\ pc = "done"
    /\ faults = {"request"}
    /\ requests = 1
    /\ closes = 1
    /\ client = "closed"

\* what main prints around and with the message
PrintedForecast ==
    <<<<"Fetching weather data from BMKG...">>,
      <<"\n==================================================">>,
      <<"WEATHER FORECAST">>,
      <<"==================================================">>,
      message,
      <<"==================================================">>>>

PrintedWarning ==
    <<<<"Fetching weather data from BMKG...">>,
      <<"<U+26A0><U+FE0F> Tidak dapat mengambil data cuaca dari BMKG. Silakan periksa koneksi internet Anda atau coba lagi nanti.">>>>

\* fetch, then format, then print: the message exists only once the fetch is
\* over and has given a response; nothing but the opening banner is printed
\* before the end; at the end the output is the formatted message (complete, to
\* its attribution) when the fetch gave a response and the warning otherwise
C2_Order ==
    /\ message # <<>> =>
          /\ pc \in {"print", "done"}
          /\ pending = ""
          /\ requests = 1
          /\ weather_data.kind = "obj" /\ weather_data = fetched
    /\ pc = "print" => message # <<>>
    /\ pc \notin {"start", "done"} => stdout = <<<<Banner>>>>
    /\ pc = "done" =>
          IF weather_data.kind = "obj"
          THEN /\ stdout = PrintedForecast
               /\ message[1] = HeaderLine
               /\ message[Len(message)] = SourceLine
          ELSE stdout = PrintedWarning /\ message = <<>>
    /\ pc # "crashed"

\* C2: every run of main, whether the fetch gives a response or fails, ends
\* having printed the formatted message (a response was obtained) or the fixed
\* warning (otherwise), in the order fetch, format, print.
C2_FetchFormatPrint == [](C2_Order) /\ <>(pc = "done")

\* a run that ends having printed a forecast with both sections
C2_Witness ==
    /\ pc = "done"
    /\ weather_data.kind = "obj"
    /\ stdout = PrintedForecast
    /\ day_forecasts # <<>> /\ night_forecasts # <<>>
    /\ ~FormatFailed

====
